---- MODULE Spec2Model ----
(***************************************************************************)
(* Predictive-maintenance core: the sensor-degradation simulator           *)
(* (data_simulator.py), the inference / health-classification pipeline     *)
(* (model_inference.py) and the coordinator (monitoring_service.py).       *)
(*                                                                         *)
(* Real-valued quantities are fixed-point integers in units of 1/Scale     *)
(* (temperatures in mK, speeds in mrpm, torque in mNm, wear in mmin,       *)
(* degradation rates in 1/1000).  The outcome of every call of the random  *)
(* module is an input of the action that makes it: a draw record holds     *)
(* one entry per call site.                                                *)
(***************************************************************************)
EXTENDS Integers, Sequences, FiniteSets, TLC

VARIABLES
    machines,   \* DataSimulator.machines: sequence of MachineSimulator objects
    call,       \* the pending call of a pure function and its inputs
    ret,        \* what the last call returned or raised
    process     \* the rest of the process: module globals (the singletons),
                \* the clock and the position of each thread

vars == <<machines, call, ret, process>>

---------------------------------------------------------------------------
(* Bounds of the model *)

\* values of random.random() are k/RandMax; the draw RandMax stands for the
\* largest value random() returns (1 - 2^-53)
RandMax == 1000
\* number of equidistant random() samples below the largest one
Grain == 1
\* largest |z| of a standard normal deviate, in 1/Scale (random.gauss is
\* bounded by sqrt(-2 ln 2^-53) = 8.57)
ZMax == 8570
\* generate_sensor_data calls per machine in the short-horizon specifications
MaxCycles == 2
\* generate_sensor_data calls in the long-horizon specification
LongCycles == 101
\* largest fleet DataSimulator is constructed with
MaxMachines == 2

---------------------------------------------------------------------------
(* Fixed-point arithmetic *)

Scale == 1000

Min(a, b) == IF a <= b THEN a ELSE b
Max(a, b) == IF a >= b THEN a ELSE b

\* a clip that forgets the upper bound
ClipLowerOnly(x, lo, hi) == Max(x, lo)

\* np.clip(x, lo, hi)
Clip(x, lo, hi) == Min(Max(x, lo), hi)

\* round(x, 1) of a numpy float: nearest multiple of 0.1, ties to even
Round1(x) ==
    LET q == x \div 100
        r == x % 100
    IN  IF r < 50 THEN q * 100
        ELSE IF r > 50 THEN (q + 1) * 100
        ELSE IF q % 2 = 0 THEN q * 100 ELSE (q + 1) * 100

\* int(x) of a non-negative float: truncation
IntTrunc(x) == (x \div Scale) * Scale

\* random.uniform(a, b) = a + (b - a) * random().  closed says whether the
\* float expression rounds up to b for the largest random() value (it does at
\* some call sites and not at others, by IEEE-754 evaluation of the
\* expression with random() = 1 - 2^-53).
Uniform(a, b, r, closed) ==
    IF r = RandMax /\ ~closed
    THEN a + ((b - a) * (RandMax - 1)) \div RandMax
    ELSE a + ((b - a) * r) \div RandMax

\* random.gauss(0, sigma) = z * sigma
Gauss(sigma, z) == (sigma * z) \div Scale

\* the samples of random() and of the normal deviate
UnitSamples == {(k * RandMax) \div Grain : k \in 0..(Grain - 1)} \cup {RandMax}
ZSamples == {0 - ZMax, 0, ZMax}

---------------------------------------------------------------------------
(* config.py *)

AirRange     == <<295000, 304000>>
ProcessRange == <<305000, 313000>>
SpeedRange   == <<1200000, 2500000>>
TorqueRange  == <<15000, 70000>>
WearRange    == <<0, 250000>>
Types        == {"L", "M", "H"}

NUM_MACHINES == 5

---------------------------------------------------------------------------
(* MachineSimulator *)

Conditions == {"healthy", "risk", "maintenance", "other"}

\* the bounds of the six random.uniform calls of __init__, per branch:
\* <<a, b, closed>> for wear, the four baselines and the degradation rate
InitRanges(initial_condition) ==
    CASE initial_condition = "healthy" ->
           [wear   |-> <<5000, 45000, FALSE>>,
            air    |-> <<296000, 299500, TRUE>>,
            proc   |-> <<306000, 309500, TRUE>>,
            speed  |-> <<1600000, 2100000, TRUE>>,
            torque |-> <<22000, 38000, TRUE>>,
            rate   |-> <<150, 300, FALSE>>]
      [] initial_condition = "risk" ->
           [wear   |-> <<165000, 185000, TRUE>>,
            air    |-> <<301000, 303000, TRUE>>,
            proc   |-> <<311200, 312800, TRUE>>,
            speed  |-> <<1240000, 1300000, TRUE>>,
            torque |-> <<63000, 68000, TRUE>>,
            rate   |-> <<200, 350, TRUE>>]
      [] initial_condition = "maintenance" ->
           [wear   |-> <<180000, 220000, TRUE>>,
            air    |-> <<301000, 303500, TRUE>>,
            proc   |-> <<311000, 313000, TRUE>>,
            speed  |-> <<1220000, 1320000, TRUE>>,
            torque |-> <<62000, 70000, TRUE>>,
            rate   |-> <<200, 350, TRUE>>]
      [] OTHER ->
           [wear   |-> <<5000, 40000, FALSE>>,
            air    |-> <<296000, 300000, TRUE>>,
            proc   |-> <<306000, 310000, TRUE>>,
            speed  |-> <<1500000, 2000000, TRUE>>,
            torque |-> <<25000, 40000, TRUE>>,
            rate   |-> <<200, 400, TRUE>>]

U3(t, r) == Uniform(t[1], t[2], r, t[3])

\* MachineSimulator.__init__; d holds the six draws
MachineSimulator(machine_id, machine_type, initial_condition, d) ==
    LET R == InitRanges(initial_condition)
    IN  [machine_id            |-> machine_id,
         machine_type          |-> machine_type,
         tool_wear             |-> U3(R.wear, d.wear),
         air_temp_baseline     |-> U3(R.air, d.air),
         process_temp_baseline |-> U3(R.proc, d.proc),
         speed_baseline        |-> U3(R.speed, d.speed),
         torque_baseline       |-> U3(R.torque, d.torque),
         degradation_rate      |-> U3(R.rate, d.rate),
         operating_mode        |-> "normal",
         cycles                |-> 0]

\* the period of the baseline drift, in cycles
DriftPeriod == 100

\* wear_factor = tool_wear / 250.0, in 1/(Scale * Scale) (exact: 10^6 / 250000 = 4)
WearFactor(tool_wear) == tool_wear * 4

\* the machine after the wear update of generate_sensor_data
Worn(m, g) ==
    LET wear_increment == (m.degradation_rate * Uniform(100, 300, g.wear, FALSE)) \div Scale
    IN  [m EXCEPT !.cycles = m.cycles + 1,
                  !.tool_wear = Min(m.tool_wear + wear_increment, 250000)]

\* the machine after the baseline drift of generate_sensor_data
Drifted(m, g) ==
    IF m.cycles % DriftPeriod = 0
    THEN [m EXCEPT !.air_temp_baseline = @ + Uniform(0 - 100, 100, g.d_air, FALSE),
                   !.speed_baseline    = @ + Uniform(0 - 5000, 5000, g.d_speed, FALSE),
                   !.torque_baseline   = @ + Uniform(0 - 500, 500, g.d_torque, FALSE)]
    ELSE m

\* the four sensor samples of generate_sensor_data, before rounding; w is the
\* machine after the wear update
AirTemp(w, g) ==
    Clip(w.air_temp_baseline + Gauss(200, g.air_z), AirRange[1], AirRange[2])

ProcessTemp(w, g) ==
    LET process_temp_base  == AirTemp(w, g) + Uniform(8000, 12000, g.proc_u, TRUE)
        process_temp_noise == Gauss(300, g.proc_z) + WearFactor(w.tool_wear) \div Scale
    IN  Clip(process_temp_base + process_temp_noise, ProcessRange[1], ProcessRange[2])

Speed(w, g) ==
    Clip(w.speed_baseline + Gauss(20000, g.speed_z), SpeedRange[1], SpeedRange[2])

Torque(w, g) ==
    LET base_torque == IF WearFactor(w.tool_wear) > 600000
                       THEN w.torque_baseline + Uniform(0, 3000, g.torque_u, FALSE)
                       ELSE w.torque_baseline
    IN  Clip(base_torque + Gauss(1500, g.torque_z), TorqueRange[1], TorqueRange[2])

\* the dict generate_sensor_data returns
Reading(w, g) ==
    ("machine_id" :> w.machine_id) @@
    ("Type" :> w.machine_type) @@
    ("Air temperature [K]" :> Round1(AirTemp(w, g))) @@
    ("Process temperature [K]" :> Round1(ProcessTemp(w, g))) @@
    ("Rotational speed [rpm]" :> IntTrunc(Speed(w, g))) @@
    ("Torque [Nm]" :> Round1(Torque(w, g))) @@
    ("Tool wear [min]" :> IntTrunc(w.tool_wear)) @@
    ("timestamp" :> g.now) @@
    ("operating_mode" :> w.operating_mode) @@
    ("cycles" :> w.cycles)

\* a generate_sensor_data that drifts the baselines before it samples the
\* sensors
GenerateSensorDataDriftFirst(m, g) ==
    LET w == Drifted(Worn(m, g), g)
    IN  [machine |-> w, reading |-> Reading(w, g)]

\* MachineSimulator.generate_sensor_data: the machine after the call and the
\* reading returned
GenerateSensorData(m, g) ==
    LET w == Worn(m, g)
    IN  [machine |-> Drifted(w, g), reading |-> Reading(w, g)]

\* a reset that leaves the wear anywhere in the healthy start range
ResetToolWearWide(m, d) ==
    [m EXCEPT !.tool_wear        = Uniform(0, 45000, d.wear, FALSE),
              !.degradation_rate = Uniform(200, 500, d.rate, FALSE)]

\* a reset that also returns the torque baseline to the healthy range
ResetToolWearOverhaul(m, d) ==
    [m EXCEPT !.tool_wear        = Uniform(0, 20000, d.wear, FALSE),
              !.degradation_rate = Uniform(200, 500, d.rate, FALSE),
              !.torque_baseline  = Min(@, 38000)]

\* MachineSimulator.reset_tool_wear; d holds the two draws
ResetToolWear(m, d) ==
    [m EXCEPT !.tool_wear        = Uniform(0, 20000, d.wear, FALSE),
              !.degradation_rate = Uniform(200, 500, d.rate, FALSE)]

---------------------------------------------------------------------------
(* The draws of one call, one entry per call site of the random module *)

\* the wear and the degradation rate are drawn independently; the four
\* baselines share one sample
InitDraws ==
    {[wear |-> w, air |-> r, proc |-> r, speed |-> r, torque |-> r, rate |-> e] :
        w \in UnitSamples, r \in UnitSamples, e \in UnitSamples}

ResetDraws == [wear : UnitSamples, rate : UnitSamples]

\* The draws of one generate_sensor_data call on machine m.  The wear draw is
\* taken from Uw; the four gauss sites share one deviate of Z and the two
\* uniform sensor sites one sample of U (each sensor still meets both ends of
\* its noise); the three drift deltas are independent samples of Ud.  torque_u is drawn
\* only when the wear factor after the update exceeds 0.6 and the drift
\* deltas only on a cycle that is a multiple of DriftPeriod: a call site that
\* is not reached has the draw 0.  now is what datetime.now() returns to the
\* call: the clock stands still at 0 wherever time is not looked at.
GenDrawsOver(m, Uw, U, Z, Ud) ==
    LET D == IF (m.cycles + 1) % DriftPeriod = 0 THEN Ud ELSE {0}
        high(w) == WearFactor(Worn(m, [wear |-> w]).tool_wear) > 600000
    IN  {[wear |-> w, air_z |-> z, proc_u |-> u, proc_z |-> z, speed_z |-> z,
          torque_u |-> IF high(w) THEN u ELSE 0, torque_z |-> z,
          d_air |-> da, d_speed |-> ds, d_torque |-> dt, now |-> 0] :
            w \in Uw, u \in U, z \in Z, da \in D, ds \in D, dt \in D}

GenDraws(m) == GenDrawsOver(m, UnitSamples, UnitSamples, ZSamples, UnitSamples)

---------------------------------------------------------------------------
(* What a call returned or raised *)

Returned(op, arg, value) == [op |-> op, arg |-> arg, raised |-> "", value |-> value]
Raised(op, arg, exc)     == [op |-> op, arg |-> arg, raised |-> exc, value |-> <<>>]

PyNone     == [tag |-> "None", v |-> 0]
PyStr(s)   == [tag |-> "str", v |-> s]

---------------------------------------------------------------------------
(* SpecMachine: one MachineSimulator driven directly, over a few cycles *)

InitMachine ==
    /\ \E c \in Conditions, d \in InitDraws :
          machines = <<MachineSimulator(<<"M", "0", "0", "1">>, "M", c, d)>>
    /\ call = PyNone
    /\ ret = Returned("__init__", PyNone, <<>>)
    /\ process = <<>>

MGenerate ==
    /\ machines[1].cycles < MaxCycles
    /\ \E g \in GenDraws(machines[1]) :
          LET out == GenerateSensorData(machines[1], g)
          IN  /\ machines' = <<out.machine>>
              /\ ret' = Returned("generate_sensor_data", PyNone, out.reading)
              /\ UNCHANGED <<call, process>>

MReset ==
    \E d \in ResetDraws :
        /\ machines' = <<ResetToolWear(machines[1], d)>>
        /\ ret' = Returned("reset_tool_wear", PyNone, <<>>)
        /\ UNCHANGED <<call, process>>

NextMachine == MGenerate \/ MReset

SpecMachine == InitMachine /\ [][NextMachine]_vars

---------------------------------------------------------------------------
(* SpecLong: one MachineSimulator over more than DriftPeriod cycles.  The six
   draws of __init__ share one sample; the wear draw and the uniform sensor
   draws of every call are the largest one, as are the two draws of
   reset_tool_wear, so that the run is long rather than wide. *)

SharedInitDraws ==
    {[wear |-> r, air |-> r, proc |-> r, speed |-> r, torque |-> r, rate |-> r] :
        r \in UnitSamples}

LongGenDraws(m) == GenDrawsOver(m, {RandMax}, {RandMax}, ZSamples, UnitSamples)

InitLong ==
    /\ \E c \in Conditions, d \in SharedInitDraws :
          machines = <<MachineSimulator(<<"M", "0", "0", "1">>, "M", c, d)>>
    /\ call = PyNone
    /\ ret = Returned("__init__", PyNone, <<>>)
    /\ process = <<>>

LGenerate ==
    /\ machines[1].cycles < LongCycles
    /\ \E g \in LongGenDraws(machines[1]) :
          LET out == GenerateSensorData(machines[1], g)
          IN  /\ machines' = <<out.machine>>
              /\ ret' = Returned("generate_sensor_data", PyNone, out.reading)
              /\ UNCHANGED <<call, process>>

LReset ==
    /\ machines' = <<ResetToolWear(machines[1], [wear |-> RandMax, rate |-> RandMax])>>
    /\ ret' = Returned("reset_tool_wear", PyNone, <<>>)
    /\ UNCHANGED <<call, process>>

NextLong == LGenerate \/ LReset

SpecLong == InitLong /\ [][NextLong]_vars

---------------------------------------------------------------------------
(* DataSimulator *)

\* str(n) of a natural number, as its sequence of decimal digits
RECURSIVE Str(_)
Str(n) ==
    LET digit == <<"0", "1", "2", "3", "4", "5", "6", "7", "8", "9">>[(n % 10) + 1]
    IN  IF n < 10 THEN <<digit>> ELSE Append(Str(n \div 10), digit)

\* s.zfill(width)
RECURSIVE ZFill(_, _)
ZFill(s, width) == IF Len(s) >= width THEN s ELSE ZFill(<<"0">> \o s, width)

\* f"M{str(i+1).zfill(3)}" for the loop index i (from 0)
MachineId(i) == <<"M">> \o ZFill(Str(i + 1), 3)

\* a condition list padded with further risk machines
ConditionListRiskPadded(num_machines) ==
    LET conditions == <<"healthy", "healthy", "healthy", "risk", "maintenance">>
    IN  conditions \o [k \in 1..Max(num_machines - Len(conditions), 0) |-> "risk"]

\* a condition list with the two degraded machines in the other order
ConditionListSwapped(num_machines) ==
    LET conditions == <<"healthy", "healthy", "healthy", "maintenance", "risk">>
    IN  conditions \o [k \in 1..Max(num_machines - Len(conditions), 0) |-> "healthy"]

\* the list conditions after the padding loop of __init__
ConditionList(num_machines) ==
    LET conditions == <<"healthy", "healthy", "healthy", "risk", "maintenance">>
    IN  conditions \o [k \in 1..Max(num_machines - Len(conditions), 0) |-> "healthy"]

\* DataSimulator.__init__: num_machines is the argument (0 standing for the
\* default None), types the random.choice of each machine and draws the six
\* draws of each MachineSimulator
DataSimulator(num_machines, types, draws) ==
    LET n          == IF num_machines = 0 THEN NUM_MACHINES ELSE num_machines
        conditions == ConditionList(n)
    IN  [k \in 1..n |->
            MachineSimulator(MachineId(k - 1), types[k],
                             IF k - 1 < Len(conditions) THEN conditions[k] ELSE "healthy",
                             draws[k])]

\* next((m for m in self.machines if m.machine_id == machine_id), None): the
\* index of the first match, 0 for None
Lookup(ms, machine_id) ==
    LET hits == {k \in 1..Len(ms) : machine_id.tag = "str" /\ ms[k].machine_id = machine_id.v}
    IN  IF hits = {} THEN 0 ELSE CHOOSE k \in hits : \A j \in hits : k <= j

\* the truth value of an argument: None and the empty string are false
Truthy(x) == x.tag = "str" /\ x.v # <<>>

\* a generate_data that steps every machine whatever the argument
GenerateDataStepsAll(ms, machine_id, g) ==
    LET all == [k \in 1..Len(ms) |-> GenerateSensorData(ms[k], g[k])]
        hit == Lookup(ms, machine_id)
    IN  [machines |-> [k \in 1..Len(ms) |-> all[k].machine],
         ret |-> Returned("generate_data", machine_id,
                          IF Truthy(machine_id) /\ hit # 0 THEN all[hit].reading
                          ELSE [k \in 1..Len(ms) |-> all[k].reading])]

\* DataSimulator.generate_data: the fleet after the call and what the call
\* returned or raised; g holds the draws of each machine
GenerateData(ms, machine_id, g) ==
    IF Truthy(machine_id)
    THEN LET k == Lookup(ms, machine_id)
         IN  IF k # 0
             THEN LET out == GenerateSensorData(ms[k], g[k])
                  IN  [machines |-> [ms EXCEPT ![k] = out.machine],
                       ret |-> Returned("generate_data", machine_id, out.reading)]
             ELSE [machines |-> ms, ret |-> Raised("generate_data", machine_id, "ValueError")]
    ELSE [machines |-> [k \in 1..Len(ms) |-> GenerateSensorData(ms[k], g[k]).machine],
          ret |-> Returned("generate_data", machine_id,
                           [k \in 1..Len(ms) |-> GenerateSensorData(ms[k], g[k]).reading])]

\* the machines a generate_data call steps
Stepped(ms, machine_id) ==
    IF Truthy(machine_id) THEN {k \in 1..Len(ms) : k = Lookup(ms, machine_id)}
    ELSE 1..Len(ms)

\* a perform_maintenance that resets the first machine of the fleet
PerformMaintenanceFirst(ms, machine_id, d) ==
    IF Lookup(ms, machine_id) # 0
    THEN [machines |-> [ms EXCEPT ![1] = ResetToolWear(ms[1], d)],
          ret |-> Returned("perform_maintenance", machine_id, TRUE)]
    ELSE [machines |-> ms, ret |-> Returned("perform_maintenance", machine_id, FALSE)]

\* a perform_maintenance that treats an unknown id as generate_data does
PerformMaintenanceRaises(ms, machine_id, d) ==
    LET k == Lookup(ms, machine_id)
    IN  IF k # 0
        THEN [machines |-> [ms EXCEPT ![k] = ResetToolWear(ms[k], d)],
              ret |-> Returned("perform_maintenance", machine_id, TRUE)]
        ELSE [machines |-> ms, ret |-> Raised("perform_maintenance", machine_id, "ValueError")]

\* a perform_maintenance that also restarts the cycle counter of the machine
PerformMaintenanceRestarts(ms, machine_id, d) ==
    LET k == Lookup(ms, machine_id)
    IN  IF k # 0
        THEN [machines |-> [ms EXCEPT ![k] = [ResetToolWear(ms[k], d) EXCEPT !.cycles = 0]],
              ret |-> Returned("perform_maintenance", machine_id, TRUE)]
        ELSE [machines |-> ms, ret |-> Returned("perform_maintenance", machine_id, FALSE)]

\* DataSimulator.perform_maintenance (MonitoringService.perform_maintenance
\* passes the call through); d holds the draws of the reset
PerformMaintenance(ms, machine_id, d) ==
    LET k == Lookup(ms, machine_id)
    IN  IF k # 0
        THEN [machines |-> [ms EXCEPT ![k] = ResetToolWear(ms[k], d)],
              ret |-> Returned("perform_maintenance", machine_id, TRUE)]
        ELSE [machines |-> ms, ret |-> Returned("perform_maintenance", machine_id, FALSE)]

---------------------------------------------------------------------------
(* Spec: a DataSimulator fleet behind the MonitoringService.  The machines of
   a fleet share the type draw and the sample of their __init__ draws; a
   generate call draws the largest wear increment and no sensor noise and a
   reset draws the largest wear and rate it can: the variety is in the calls
   and their arguments. *)

FleetSizes == 1..MaxMachines

FleetGenDraws(m) == GenDrawsOver(m, {RandMax}, {RandMax}, {0}, {RandMax})

FleetResetDraws == {[wear |-> RandMax, rate |-> RandMax]}

FleetInitDraws ==
    {[wear |-> r, air |-> r, proc |-> r, speed |-> r, torque |-> r, rate |-> r] :
        r \in {0, RandMax}}

\* the arguments a caller passes for machine_id: None, the empty string, the
\* ids of the fleet and ids that are not in it
MachineIdArgs(ms) ==
    {PyNone, PyStr(<<>>), PyStr(<<"M", "9", "9", "9">>), PyStr(<<"m", "0", "0", "1">>)}
        \cup {PyStr(ms[k].machine_id) : k \in 1..Len(ms)}

Init ==
    /\ \E n \in FleetSizes, t \in Types, d \in FleetInitDraws :
          machines = DataSimulator(n, [k \in 1..n |-> t], [k \in 1..n |-> d])
    /\ call = PyNone
    /\ ret = Returned("__init__", PyNone, <<>>)
    /\ process = <<>>

DoGenerateData ==
    \E machine_id \in MachineIdArgs(machines) :
        /\ \A k \in Stepped(machines, machine_id) : machines[k].cycles < MaxCycles
        /\ \E g \in [1..Len(machines) -> UNION {FleetGenDraws(machines[k]) : k \in 1..Len(machines)}] :
              /\ \A k \in 1..Len(machines) : g[k] \in FleetGenDraws(machines[k])
              /\ LET out == GenerateData(machines, machine_id, g)
                 IN  /\ machines' = out.machines
                     /\ ret' = out.ret
        /\ UNCHANGED <<call, process>>

DoPerformMaintenance ==
    \E machine_id \in MachineIdArgs(machines), d \in FleetResetDraws :
        LET out == PerformMaintenance(machines, machine_id, d)
        IN  /\ machines' = out.machines
            /\ ret' = out.ret
            /\ UNCHANGED <<call, process>>

Next == DoGenerateData \/ DoPerformMaintenance

Spec == Init /\ [][Next]_vars

---------------------------------------------------------------------------
(* ModelInference *)

\* probabilities are fixed-point integers in units of 1/ProbScale
ProbScale == 100000

FAILURE_THRESHOLD == 60000

\* config.HEALTH_STATUS, in insertion order: <<status, min_prob, max_prob>>
HEALTH_STATUS ==
    << <<"healthy", 0, 30000>>,
       <<"risk", 30000, 60000>>,
       <<"maintenance_required", 60000, 100000>> >>

\* status.upper().replace('_', ' ') on the keys of HEALTH_STATUS
UpperLabel(status) ==
    CASE status = "healthy" -> "HEALTHY"
      [] status = "risk" -> "RISK"
      [] status = "maintenance_required" -> "MAINTENANCE REQUIRED"

\* a band test that takes the upper bound of an interval into the interval
InBandClosed(band, failure_probability) ==
    band[2] <= failure_probability /\ failure_probability <= band[3]

\* min_prob <= failure_probability < max_prob
InBand(band, failure_probability) ==
    band[2] <= failure_probability /\ failure_probability < band[3]

\* ModelInference._get_health_status: the first band that matches, in the
\* order of the dict, and the fallback when none does
GetHealthStatus(failure_probability) ==
    LET hits == {k \in 1..Len(HEALTH_STATUS) : InBand(HEALTH_STATUS[k], failure_probability)}
    IN  IF hits = {} THEN "MAINTENANCE REQUIRED"
        ELSE UpperLabel(HEALTH_STATUS[CHOOSE k \in hits : \A j \in hits : k <= j][1])

\* an alert test that excludes the threshold itself
AlertAbove(failure_prob) == failure_prob > FAILURE_THRESHOLD

\* bool(failure_prob >= config.FAILURE_THRESHOLD)
Alert(failure_prob) == failure_prob >= FAILURE_THRESHOLD

\* round(x, 4) of a probability: nearest multiple of 0.0001, ties to even
Round4(x) ==
    LET unit == ProbScale \div 10000
        q == x \div unit
        r == x % unit
    IN  IF 2 * r < unit THEN q * unit
        ELSE IF 2 * r > unit THEN (q + 1) * unit
        ELSE IF q % 2 = 0 THEN q * unit ELSE (q + 1) * unit

PyNum(x)   == [tag |-> "num", v |-> x]
PyDict(d)  == [tag |-> "dict", v |-> d]
PyList(l)  == [tag |-> "list", v |-> l]

\* d.get(key)
Get(d, key) == IF key \in DOMAIN d THEN PyNum(d[key]) ELSE PyNone

\* a or b
Or(a, b) == IF a = PyNone \/ a = PyNum(0) THEN b ELSE a

\* the classes of the LabelEncoder fitted on the Type column, sorted
EncoderClasses == <<"H", "L", "M">>

\* label_encoder.transform([t])[0]: the index of t in the classes, -1 standing
\* for the ValueError of an unseen label
Encode(t) ==
    IF \E k \in 1..Len(EncoderClasses) : EncoderClasses[k] = t
    THEN (CHOOSE k \in 1..Len(EncoderClasses) : EncoderClasses[k] = t) - 1
    ELSE 0 - 1

\* the two accepted names of each sensor and the name of its feature
Sensors == {"air", "process", "speed", "torque", "wear"}

Bracketed(sensor) ==
    CASE sensor = "air" -> "Air temperature [K]"
      [] sensor = "process" -> "Process temperature [K]"
      [] sensor = "speed" -> "Rotational speed [rpm]"
      [] sensor = "torque" -> "Torque [Nm]"
      [] sensor = "wear" -> "Tool wear [min]"

Normalized(sensor) ==
    CASE sensor = "air" -> "Air_temperature_K"
      [] sensor = "process" -> "Process_temperature_K"
      [] sensor = "speed" -> "Rotational_speed_rpm"
      [] sensor = "torque" -> "Torque_Nm"
      [] sensor = "wear" -> "Tool_wear_min"

\* sensor_data.get(bracketed) or sensor_data.get(normalized)
Extract(sensor_data, sensor) ==
    Or(Get(sensor_data, Bracketed(sensor)), Get(sensor_data, Normalized(sensor)))

\* the feature columns of the trained model, in the order of the training frame
TrainedColumns ==
    <<"Air_temperature_K", "Process_temperature_K", "Rotational_speed_rpm",
      "Torque_Nm", "Tool_wear_min", "Type_encoded", "Temp_diff", "Power">>

\* a preprocess_input that returns the features in the insertion order of the
\* dict, whatever order feature_columns gives
PreprocessInputDictOrder(sensor_data, feature_columns) ==
    LET air_temp     == Extract(sensor_data, "air")
        process_temp == Extract(sensor_data, "process")
        speed        == Extract(sensor_data, "speed")
        torque       == Extract(sensor_data, "torque")
        tool_wear    == Extract(sensor_data, "wear")
        features ==
            ("Air_temperature_K" :> air_temp) @@
            ("Process_temperature_K" :> process_temp) @@
            ("Rotational_speed_rpm" :> speed) @@
            ("Torque_Nm" :> torque) @@
            ("Tool_wear_min" :> tool_wear) @@
            ("Type_encoded" :> PyNum(Encode(sensor_data["Type"]))) @@
            ("Temp_diff" :> PyNum(process_temp.v - air_temp.v)) @@
            ("Power" :> PyNum((torque.v * (speed.v \div Scale)) \div 1000))
    IN  IF "Type" \notin DOMAIN sensor_data THEN [raised |-> "KeyError", value |-> <<>>]
        ELSE IF Encode(sensor_data["Type"]) < 0 THEN [raised |-> "ValueError", value |-> <<>>]
        ELSE IF process_temp = PyNone \/ air_temp = PyNone
             THEN [raised |-> "TypeError", value |-> <<>>]
        ELSE IF torque = PyNone \/ speed = PyNone
             THEN [raised |-> "TypeError", value |-> <<>>]
        ELSE IF \E k \in 1..Len(feature_columns) : feature_columns[k] \notin DOMAIN features
             THEN [raised |-> "KeyError", value |-> <<>>]
        ELSE [raised |-> "",
              value |-> [k \in 1..Len(feature_columns) |-> features[TrainedColumns[k]]]]

\* ModelInference.preprocess_input: the row of df.values, or the exception
\* (speeds are whole rpm: power = torque * rpm / 1000)
PreprocessInput(sensor_data, feature_columns) ==
    LET air_temp     == Extract(sensor_data, "air")
        process_temp == Extract(sensor_data, "process")
        speed        == Extract(sensor_data, "speed")
        torque       == Extract(sensor_data, "torque")
        tool_wear    == Extract(sensor_data, "wear")
        features ==
            ("Air_temperature_K" :> air_temp) @@
            ("Process_temperature_K" :> process_temp) @@
            ("Rotational_speed_rpm" :> speed) @@
            ("Torque_Nm" :> torque) @@
            ("Tool_wear_min" :> tool_wear) @@
            ("Type_encoded" :> PyNum(Encode(sensor_data["Type"]))) @@
            ("Temp_diff" :> PyNum(process_temp.v - air_temp.v)) @@
            ("Power" :> PyNum((torque.v * (speed.v \div Scale)) \div 1000))
    IN  IF "Type" \notin DOMAIN sensor_data THEN [raised |-> "KeyError", value |-> <<>>]
        ELSE IF Encode(sensor_data["Type"]) < 0 THEN [raised |-> "ValueError", value |-> <<>>]
        ELSE IF process_temp = PyNone \/ air_temp = PyNone
             THEN [raised |-> "TypeError", value |-> <<>>]
        ELSE IF torque = PyNone \/ speed = PyNone
             THEN [raised |-> "TypeError", value |-> <<>>]
        ELSE IF \E k \in 1..Len(feature_columns) : feature_columns[k] \notin DOMAIN features
             THEN [raised |-> "KeyError", value |-> <<>>]
        ELSE [raised |-> "",
              value |-> [k \in 1..Len(feature_columns) |-> features[feature_columns[k]]]]

\* the frozen classifier is outside the repository: predict_proba gives the
\* failure probability o.p and predict the class of the larger probability; a
\* row that holds None may make the library raise (o.fault)
HasNone(row) == \E k \in 1..Len(row) : row[k] = PyNone

ClassifierPredict(o) == IF 2 * o.p > ProbScale THEN 1 ELSE 0

\* the result dict predict builds for one reading
PredictionResult(data, o) ==
    [machine_id          |-> IF "machine_id" \in DOMAIN data THEN data["machine_id"]
                             ELSE <<"U", "n", "k", "n", "o", "w", "n">>,
     prediction          |-> ClassifierPredict(o),
     failure_probability |-> Round4(o.p),
     normal_probability  |-> Round4(ProbScale - o.p),
     health_status       |-> GetHealthStatus(o.p),
     sensor_data         |-> data,
     alert               |-> Alert(o.p)]

\* what the loop body of predict raises on reading data ("" when it
\* completes)
ItemFault(data, o, feature_columns) ==
    LET pre == PreprocessInput(data, feature_columns)
    IN  IF pre.raised # "" THEN pre.raised
        ELSE IF o.fault THEN "ValueError"
        ELSE ""

\* ModelInference.predict: sensor_data is a dict or a list of dicts, outcomes
\* the classifier's answer for each reading
Predict(model_loaded, sensor_data, outcomes, feature_columns) ==
    LET items  == IF sensor_data.tag = "dict" THEN <<sensor_data.v>> ELSE sensor_data.v
        faults == {k \in 1..Len(items) : ItemFault(items[k], outcomes[k], feature_columns) # ""}
        first  == CHOOSE k \in faults : \A j \in faults : k <= j
        predictions == [k \in 1..Len(items) |-> PredictionResult(items[k], outcomes[k])]
    IN  IF ~model_loaded THEN Raised("predict", sensor_data, "RuntimeError")
        ELSE IF faults # {}
             THEN Raised("predict", sensor_data,
                         ItemFault(items[first], outcomes[first], feature_columns))
        ELSE IF Len(predictions) > 1
             THEN Returned("predict", sensor_data, PyList(predictions))
        ELSE IF Len(predictions) = 1
             THEN Returned("predict", sensor_data, PyDict(predictions[1]))
        ELSE Raised("predict", sensor_data, "IndexError")

---------------------------------------------------------------------------
(* The inputs of the inference specifications *)

\* the sample reading of the module's self-test
TestData ==
    ("machine_id" :> <<"M", "0", "0", "1">>) @@
    ("Type" :> "M") @@
    ("Air temperature [K]" :> 298100) @@
    ("Process temperature [K]" :> 308600) @@
    ("Rotational speed [rpm]" :> 1551000) @@
    ("Torque [Nm]" :> 42800) @@
    ("Tool wear [min]" :> 150000)

\* largest batch handed to predict
MaxBatch == 2

\* the failure probabilities of the classifier in the batch specification:
\* the ends of [0,1] and both sides of each band boundary
ProbSamples == {0, 29999, 30000, 59999, 60000, ProbScale}

\* the outcomes the classifier can have on reading data
Outcomes(data, P) ==
    {[p |-> q, fault |-> f] : q \in P,
        f \in IF PreprocessInput(data, TrainedColumns).raised = ""
                 /\ HasNone(PreprocessInput(data, TrainedColumns).value)
              THEN BOOLEAN ELSE {FALSE}}

\* a reading that gives each sensor under one of its two names
Namings == [Sensors -> {"bracketed", "normalized"}]

NamedReading(naming, vals, t) ==
    LET key(x) == IF naming[x] = "bracketed" THEN Bracketed(x) ELSE Normalized(x)
    IN  [k \in {key(x) : x \in Sensors} \cup {"machine_id", "Type"} |->
            IF k = "machine_id" THEN <<"M", "0", "0", "1">>
            ELSE IF k = "Type" THEN t
            ELSE vals[CHOOSE x \in Sensors : key(x) = k]]

\* valid sensor values: the self-test's, and 0 for the two sensors that may be 0
SensorValues ==
    [air : {298100}, process : {308600}, speed : {1551000},
     torque : {0, 42800}, wear : {0, 150000}]

PreprocessCalls ==
    {[op |-> "preprocess_input", sensor_data |-> NamedReading(naming, vals, t),
      feature_columns |-> TrainedColumns] :
        naming \in Namings, vals \in SensorValues, t \in Types}

\* the reading data without the keys of the set keys
Without(data, keys) == [k \in (DOMAIN data) \ keys |-> data[k]]

\* readings that lack one required field: a sensor under both of its names,
\* or the Type
MissingFields == Sensors \cup {"Type"}

LacksField(data, x) ==
    IF x = "Type" THEN "Type" \notin DOMAIN data
    ELSE Bracketed(x) \notin DOMAIN data /\ Normalized(x) \notin DOMAIN data

MissingCalls ==
    {[op |-> "preprocess_input",
      sensor_data |->
          Without(NamedReading(naming, [air |-> 298100, process |-> 308600,
                                        speed |-> 1551000, torque |-> 42800,
                                        wear |-> 150000], "M"),
                  IF x = "Type" THEN {"Type"} ELSE {Bracketed(x), Normalized(x)}),
      feature_columns |-> TrainedColumns] :
        naming \in {[y \in Sensors |-> "bracketed"], [y \in Sensors |-> "normalized"]},
        x \in MissingFields}

\* the k-th reading of a batch: the self-test's reading for machine k, with
\* the wear given
BatchReading(k, wear) ==
    [TestData EXCEPT !["machine_id"] = MachineId(k - 1), !["Tool wear [min]"] = wear]

Batches ==
    UNION {{[k \in 1..n |-> BatchReading(k, w[k])] : w \in [1..n -> {0, 150000}]} :
              n \in 1..MaxBatch}

PredictCalls ==
    UNION {{[op |-> "predict", model_loaded |-> l, sensor_data |-> PyList(b),
             outcomes |-> o, feature_columns |-> TrainedColumns] :
               l \in BOOLEAN,
               o \in {x \in [1..Len(b) -> UNION {Outcomes(b[k], ProbSamples) : k \in 1..Len(b)}] :
                         \A k \in 1..Len(b) : x[k] \in Outcomes(b[k], ProbSamples)}} :
              b \in Batches}
    \cup
    UNION {{[op |-> "predict", model_loaded |-> l, sensor_data |-> PyDict(BatchReading(1, w)),
             outcomes |-> <<o>>, feature_columns |-> TrainedColumns] :
               l \in BOOLEAN, o \in Outcomes(BatchReading(1, w), ProbSamples)} :
              w \in {0, 150000}}

\* every ordering of the eight feature names that the metadata can record
Orderings ==
    {[k \in 1..Len(TrainedColumns) |-> TrainedColumns[p[k]]] :
        p \in Permutations(1..Len(TrainedColumns))}

\* the self-test's reading under the bracketed names, and a reading under the
\* normalized names with a new tool
OrderReadings ==
    {TestData,
     NamedReading([y \in Sensors |-> "normalized"],
                  [air |-> 300200, process |-> 310900, speed |-> 1408000,
                   torque |-> 46300, wear |-> 0], "L")}

OrderCalls ==
    {[op |-> "preprocess_input", sensor_data |-> data, feature_columns |-> cols] :
        data \in OrderReadings, cols \in Orderings}

---------------------------------------------------------------------------
(* SpecInfer: one call of preprocess_input or of predict on a batch;
   SpecBand: predict on the self-test's reading for every failure
   probability *)

DoPreprocessInput ==
    /\ ret.op = "__init__"
    /\ call.op = "preprocess_input"
    /\ LET out == PreprocessInput(call.sensor_data, call.feature_columns)
       IN  ret' = [op |-> "preprocess_input", arg |-> PyDict(call.sensor_data),
                   raised |-> out.raised, value |-> out.value]
    /\ UNCHANGED <<machines, call, process>>

DoPredict ==
    /\ ret.op = "__init__"
    /\ call.op = "predict"
    /\ ret' = Predict(call.model_loaded, call.sensor_data, call.outcomes,
                      call.feature_columns)
    /\ UNCHANGED <<machines, call, process>>

InitInfer ==
    /\ machines = <<>>
    /\ call \in PreprocessCalls \cup MissingCalls \cup PredictCalls
    /\ ret = Returned("__init__", PyNone, <<>>)
    /\ process = <<>>

NextInfer == DoPreprocessInput \/ DoPredict

SpecInfer == InitInfer /\ [][NextInfer]_vars

\* SpecOrder: one call of preprocess_input under every ordering of the
\* metadata's feature_columns
InitOrder ==
    /\ machines = <<>>
    /\ call \in OrderCalls
    /\ ret = Returned("__init__", PyNone, <<>>)
    /\ process = <<>>

SpecOrder == InitOrder /\ [][DoPreprocessInput]_vars

InitBand ==
    /\ machines = <<>>
    /\ \E q \in 0..ProbScale :
          call = [op |-> "predict", model_loaded |-> TRUE, sensor_data |-> PyDict(TestData),
                  outcomes |-> <<[p |-> q, fault |-> FALSE]>>,
                  feature_columns |-> TrainedColumns]
    /\ ret = Returned("__init__", PyNone, <<>>)
    /\ process = <<>>

SpecBand == InitBand /\ [][DoPredict]_vars

---------------------------------------------------------------------------
(* SpecSingleton: threads that make their first calls of get_model_inference
   and then predict on the instance they were handed.  process holds the
   module global _model_inference (0 for None, else the index of an
   instance), the ModelInference instances ever constructed, the number of
   load_model runs started and of classifier invocations, whether the
   artifact files can be loaded, and for each thread its position and the
   instance it holds. *)

\* threads that call get_model_inference
MaxThreads == 2
\* classifier invocations
MaxPredicts == 1

Threads == 1..MaxThreads

\* ModelInference.__init__
NewModelInference == [model_loaded |-> FALSE]

\* a load_model that reports success whatever the artifact
LoadModelOptimistic(inst, artifact) == [inst EXCEPT !.model_loaded = TRUE]

\* ModelInference.load_model: model_loaded is True when every file loaded and
\* False when the try block raised
LoadModel(inst, artifact) == [inst EXCEPT !.model_loaded = artifact]

InitSingleton ==
    /\ machines = <<>>
    /\ call = PyNone
    /\ ret = Returned("__init__", PyNone, <<>>)
    /\ \E a \in BOOLEAN :
          process = [model_inference |-> 0, instances |-> <<>>, loads |-> 0,
                     classified |-> 0, artifact |-> a,
                     pc |-> [t \in Threads |-> "idle"],
                     holds |-> [t \in Threads |-> 0]]

\* if _model_inference is None:
GmiTest(t) ==
    /\ process.pc[t] = "idle"
    /\ process' = [process EXCEPT
                     !.pc[t] = IF process.model_inference = 0 THEN "new" ELSE "return"]
    /\ UNCHANGED <<machines, call, ret>>

\* _model_inference = ModelInference()
GmiCreate(t) ==
    /\ process.pc[t] = "new"
    /\ process' = [process EXCEPT
                     !.instances = Append(@, NewModelInference),
                     !.model_inference = Len(process.instances) + 1,
                     !.pc[t] = "load"]
    /\ UNCHANGED <<machines, call, ret>>

\* _model_inference.load_model() is entered, on the instance the global
\* names at that moment
GmiLoadBegin(t) ==
    /\ process.pc[t] = "load"
    /\ process' = [process EXCEPT
                     !.loads = @ + 1,
                     !.holds[t] = process.model_inference,
                     !.pc[t] = "loading"]
    /\ UNCHANGED <<machines, call, ret>>

\* load_model finishes
GmiLoadEnd(t) ==
    /\ process.pc[t] = "loading"
    /\ process' = [process EXCEPT
                     !.instances[process.holds[t]] = LoadModel(@, process.artifact),
                     !.pc[t] = "return"]
    /\ UNCHANGED <<machines, call, ret>>

\* return _model_inference
GmiReturn(t) ==
    /\ process.pc[t] = "return"
    /\ process' = [process EXCEPT
                     !.holds[t] = process.model_inference,
                     !.pc[t] = "have"]
    /\ ret' = Returned("get_model_inference", [thread |-> t], process.model_inference)
    /\ UNCHANGED <<machines, call>>

\* the thread calls predict on the instance it holds; the classifier is
\* invoked when the call gets past the model_loaded test
ThreadPredict(t) ==
    /\ process.pc[t] = "have"
    /\ LET inst == process.instances[process.holds[t]]
           out  == Predict(inst.model_loaded, PyDict(TestData),
                           <<[p |-> 0, fault |-> FALSE]>>, TrainedColumns)
       IN  /\ inst.model_loaded => process.classified < MaxPredicts
           /\ ret' = [out EXCEPT !.arg = [thread |-> t]]
           /\ process' = [process EXCEPT
                            !.classified = IF inst.model_loaded THEN @ + 1 ELSE @]
    /\ UNCHANGED <<machines, call>>

\* the thread asks for the singleton again
ThreadAgain(t) ==
    /\ process.pc[t] = "have"
    /\ process' = [process EXCEPT !.pc[t] = "idle"]
    /\ UNCHANGED <<machines, call, ret>>

NextSingleton ==
    \E t \in Threads :
        \/ GmiTest(t)
        \/ GmiCreate(t)
        \/ GmiLoadBegin(t)
        \/ GmiLoadEnd(t)
        \/ GmiReturn(t)
        \/ ThreadPredict(t)
        \/ ThreadAgain(t)

SpecSingleton == InitSingleton /\ [][NextSingleton]_vars

---------------------------------------------------------------------------
(* SpecRace: one generate_sensor_data call and one reset_tool_wear call on the
   same machine, by two threads, a step per access of the machine's
   attributes.  process holds the position of each call, the locals of
   generate_sensor_data, the draws of both calls, the machine as it was
   before them and the reading once it is returned. *)

InitRace ==
    /\ \E c \in Conditions, i \in SharedInitDraws :
          LET m == MachineSimulator(<<"M", "0", "0", "1">>, "M", c, i)
          IN  /\ machines = <<m>>
              /\ \E g \in FleetGenDraws(m), d \in ResetDraws :
                    process = [gen |-> "cycles", reset |-> "wear", g |-> g, d |-> d,
                               before |-> m, wear_increment |-> 0, wear_read |-> 0,
                               wear_factor_of |-> 0, reading |-> <<>>]
    /\ call = PyNone
    /\ ret = Returned("__init__", PyNone, <<>>)

\* self.cycles += 1
GenCycles ==
    /\ process.gen = "cycles"
    /\ machines' = [machines EXCEPT ![1].cycles = @ + 1]
    /\ process' = [process EXCEPT !.gen = "increment"]
    /\ UNCHANGED <<call, ret>>

\* wear_increment = self.degradation_rate * random.uniform(0.1, 0.3)
GenIncrement ==
    /\ process.gen = "increment"
    /\ process' = [process EXCEPT
                     !.wear_increment =
                         (machines[1].degradation_rate
                             * Uniform(100, 300, process.g.wear, FALSE)) \div Scale,
                     !.gen = "read"]
    /\ UNCHANGED <<machines, call, ret>>

\* self.tool_wear = min(self.tool_wear + wear_increment, 250): the attribute
\* is read ...
GenReadWear ==
    /\ process.gen = "read"
    /\ process' = [process EXCEPT !.wear_read = machines[1].tool_wear, !.gen = "write"]
    /\ UNCHANGED <<machines, call, ret>>

\* ... and stored
GenWriteWear ==
    /\ process.gen = "write"
    /\ machines' = [machines EXCEPT
                      ![1].tool_wear = Min(process.wear_read + process.wear_increment, 250000)]
    /\ process' = [process EXCEPT !.gen = "factor"]
    /\ UNCHANGED <<call, ret>>

\* wear_factor = self.tool_wear / 250.0
GenWearFactor ==
    /\ process.gen = "factor"
    /\ process' = [process EXCEPT !.wear_factor_of = machines[1].tool_wear, !.gen = "return"]
    /\ UNCHANGED <<machines, call, ret>>

\* the drift and the return: the samples use the wear factor computed above,
\* the dict reads self.tool_wear again
GenReturn ==
    /\ process.gen = "return"
    /\ LET w == [machines[1] EXCEPT !.tool_wear = process.wear_factor_of]
           reading == [Reading(w, process.g) EXCEPT
                          !["Tool wear [min]"] = IntTrunc(machines[1].tool_wear)]
       IN  /\ machines' = <<Drifted(machines[1], process.g)>>
           /\ process' = [process EXCEPT !.reading = reading, !.gen = "done"]
           /\ ret' = Returned("generate_sensor_data", PyNone, reading)
    /\ UNCHANGED call

\* self.tool_wear = random.uniform(0, 20)
ResetWear ==
    /\ process.reset = "wear"
    /\ machines' = [machines EXCEPT ![1].tool_wear = ResetToolWear(machines[1], process.d).tool_wear]
    /\ process' = [process EXCEPT !.reset = "rate"]
    /\ UNCHANGED <<call, ret>>

\* self.degradation_rate = random.uniform(0.2, 0.5)
ResetRate ==
    /\ process.reset = "rate"
    /\ machines' = [machines EXCEPT
                      ![1].degradation_rate = ResetToolWear(machines[1], process.d).degradation_rate]
    /\ process' = [process EXCEPT !.reset = "done"]
    /\ UNCHANGED <<call, ret>>

NextRace ==
    \/ GenCycles
    \/ GenIncrement
    \/ GenReadWear
    \/ GenWriteWear
    \/ GenWearFactor
    \/ GenReturn
    \/ ResetWear
    \/ ResetRate

SpecRace == InitRace /\ [][NextRace]_vars

---------------------------------------------------------------------------
(* SpecScenario: the default fleet of NUM_MACHINES machines, freshly
   constructed, and its first generate_data() call.  The healthy machines
   share their draws; the risk and the maintenance machine each draw their
   wear and their torque baseline independently, and their own noise. *)

DegradedInitDraws ==
    {[wear |-> w, air |-> RandMax, proc |-> RandMax, speed |-> RandMax,
      torque |-> q, rate |-> RandMax] : w \in UnitSamples, q \in UnitSamples}

ScenarioDraws(k) == IF k <= 3 THEN SharedInitDraws ELSE DegradedInitDraws

ScenarioNoise(k) == IF k <= 3 THEN {0, ZMax} ELSE ZSamples

InitScenario ==
    /\ \E t \in Types, dh \in SharedInitDraws, dr \in DegradedInitDraws,
          dm \in DegradedInitDraws :
          machines = DataSimulator(0, [k \in 1..NUM_MACHINES |-> t],
                                   [k \in 1..NUM_MACHINES |->
                                       IF k <= 3 THEN dh ELSE IF k = 4 THEN dr ELSE dm])
    /\ call = PyNone
    /\ ret = Returned("__init__", PyNone, <<>>)
    /\ process = <<>>

\* the first generate_data() of the fleet
DoFirstGenerate ==
    /\ \A k \in 1..Len(machines) : machines[k].cycles = 0
    /\ \E zh \in ScenarioNoise(1), zr \in ScenarioNoise(4), zm \in ScenarioNoise(5) :
          LET z(k) == IF k <= 3 THEN zh ELSE IF k = 4 THEN zr ELSE zm
              g == [k \in 1..Len(machines) |->
                       CHOOSE x \in GenDrawsOver(machines[k], {RandMax}, {RandMax},
                                                 {z(k)}, {RandMax}) : TRUE]
              out == GenerateData(machines, PyNone, g)
          IN  /\ machines' = out.machines
              /\ ret' = out.ret
    /\ UNCHANGED <<call, process>>

SpecScenario == InitScenario /\ [][DoFirstGenerate]_vars

---------------------------------------------------------------------------
(* SpecService: the MonitoringService over a fleet and the model singleton,
   after a startup that loaded the model; every machine is of type M.
   process holds whether the singleton's model is loaded, the clock that
   datetime.now() reads, and the calls in which a prediction request has
   failed so far. *)

\* largest value of the clock
MaxClock == 1

\* the failure probabilities of the classifier in the service specification
ServiceProbs == {0, FAILURE_THRESHOLD}

\* the draws of generate_sensor_data on machine m at time now
ServiceGenDraws(m, now) == {[x EXCEPT !.now = now] : x \in FleetGenDraws(m)}

\* a reset draws either end of its ranges: the smallest wear reads 0 min
ServiceResetDraws == {[wear |-> r, rate |-> r] : r \in {0, RandMax}}

\* the times datetime.now() returns to n successive calls, from clock on
Nows(n, clock) ==
    {t \in [1..n -> clock..MaxClock] : \A j \in 1..n : \A k \in j..n : t[j] <= t[k]}

\* a get_real_time_predictions that loses the fleet when the prediction fails
GetRealTimePredictionsDropping(ms, model_loaded, g, outcomes) ==
    LET gen == GenerateData(ms, PyNone, g)
        out == Predict(model_loaded, PyList(gen.ret.value), outcomes, TrainedColumns)
    IN  [machines |-> IF out.raised # "" THEN <<>> ELSE gen.machines,
         ret |-> [out EXCEPT !.op = "get_real_time_predictions"]]

\* MonitoringService.get_real_time_predictions: generate_data() and then
\* predict on the list of readings
GetRealTimePredictions(ms, model_loaded, g, outcomes) ==
    LET gen == GenerateData(ms, PyNone, g)
        out == Predict(model_loaded, PyList(gen.ret.value), outcomes, TrainedColumns)
    IN  [machines |-> gen.machines,
         ret |-> [out EXCEPT !.op = "get_real_time_predictions"]]

\* MonitoringService.get_machine_prediction: generate_data(machine_id) and
\* then predict on what it returned
GetMachinePrediction(ms, model_loaded, machine_id, g, outcomes) ==
    LET gen == GenerateData(ms, machine_id, g)
        sensor_data == IF Truthy(machine_id) THEN PyDict(gen.ret.value)
                       ELSE PyList(gen.ret.value)
        out == Predict(model_loaded, sensor_data, outcomes, TrainedColumns)
    IN  IF gen.ret.raised # ""
        THEN [machines |-> gen.machines,
              ret |-> [gen.ret EXCEPT !.op = "get_machine_prediction"]]
        ELSE [machines |-> gen.machines,
              ret |-> [out EXCEPT !.op = "get_machine_prediction"]]

\* the outcomes the classifier can have on each reading of the sequence
OutcomesOf(readings) ==
    {o \in [1..Len(readings) ->
               UNION {Outcomes(readings[k], ServiceProbs) : k \in 1..Len(readings)}] :
        /\ \A k \in 1..Len(readings) : o[k] \in Outcomes(readings[k], ServiceProbs)
        /\ \A k \in 1..Len(readings) : o[k].p = o[1].p}

\* the draws of each machine of the fleet when the k-th stepped machine reads
\* the clock at now[k]
ServiceDraws(ms, now) ==
    [k \in 1..Len(ms) |-> CHOOSE x \in ServiceGenDraws(ms[k], now[k]) : TRUE]

InitService ==
    /\ \E n \in FleetSizes :
          machines = DataSimulator(n, [k \in 1..n |-> "M"],
                                   [k \in 1..n |->
                                       CHOOSE d \in SharedInitDraws : d.wear = RandMax])
    /\ call = PyNone
    /\ ret = Returned("__init__", PyNone, <<>>)
    /\ process = [model_loaded |-> TRUE, clock |-> 0, failed |-> {}]

DoRealTimePredictions ==
    /\ \A k \in 1..Len(machines) : machines[k].cycles < MaxCycles
    /\ \E now \in Nows(Len(machines), process.clock) :
          LET g == ServiceDraws(machines, now)
          IN  \E o \in OutcomesOf(GenerateData(machines, PyNone, g).ret.value) :
                LET out == GetRealTimePredictions(machines, process.model_loaded, g, o)
                IN  /\ machines' = out.machines
                    /\ ret' = out.ret
                    /\ process' = [process EXCEPT
                                     !.clock = now[Len(machines)],
                                     !.failed = IF out.ret.raised # ""
                                                THEN @ \cup {"predict"} ELSE @]
    /\ UNCHANGED call

DoMachinePrediction ==
    \E machine_id \in MachineIdArgs(machines) \ {PyNone} :
        /\ \A k \in Stepped(machines, machine_id) : machines[k].cycles < MaxCycles
        /\ \E now \in Nows(Len(machines), process.clock) :
              LET g == ServiceDraws(machines, now)
                  gen == GenerateData(machines, machine_id, g)
                  readings == IF gen.ret.raised # "" THEN <<>>
                              ELSE IF Truthy(machine_id) THEN <<gen.ret.value>>
                              ELSE gen.ret.value
              IN  \E o \in IF readings = <<>> THEN {<<>>} ELSE OutcomesOf(readings) :
                    LET out == GetMachinePrediction(machines, process.model_loaded,
                                                    machine_id, g, o)
                    IN  /\ machines' = out.machines
                        /\ ret' = out.ret
                        /\ process' = [process EXCEPT
                                         !.clock = now[Len(machines)],
                                         !.failed =
                                             IF gen.ret.raised # ""
                                             THEN @ \cup {"generate_data"}
                                             ELSE IF out.ret.raised # ""
                                             THEN @ \cup {"predict"} ELSE @]
        /\ UNCHANGED call

\* MonitoringService.perform_maintenance
DoServiceMaintenance ==
    \E machine_id \in MachineIdArgs(machines) \ {PyNone}, d \in ServiceResetDraws :
        LET out == PerformMaintenance(machines, machine_id, d)
        IN  /\ machines' = out.machines
            /\ ret' = out.ret
            /\ UNCHANGED <<call, process>>

NextService == DoRealTimePredictions \/ DoMachinePrediction \/ DoServiceMaintenance

SpecService == InitService /\ [][NextService]_vars

\* the service of a process whose load_model found no artifact: model_loaded
\* stays False and the service is created all the same
InitUnloaded ==
    /\ \E n \in FleetSizes :
          machines = DataSimulator(n, [k \in 1..n |-> "M"],
                                   [k \in 1..n |->
                                       CHOOSE d \in SharedInitDraws : d.wear = RandMax])
    /\ call = PyNone
    /\ ret = Returned("__init__", PyNone, <<>>)
    /\ process = [model_loaded |-> FALSE, clock |-> 0, failed |-> {}]

SpecUnloaded == InitUnloaded /\ [][NextService]_vars

---------------------------------------------------------------------------
(* SpecFleet: the construction of a DataSimulator of every size up to
   MaxFleet.  The healthy machines share their draws; the fourth and the
   fifth machine draw their wear and torque baseline independently. *)

\* largest fleet constructed
MaxFleet == 6

InitFleet ==
    /\ machines = <<>>
    /\ \E n \in 1..MaxFleet, t \in Types, dh \in SharedInitDraws,
          dr \in DegradedInitDraws, dm \in DegradedInitDraws :
          call = [op |-> "DataSimulator", num_machines |-> n,
                  types |-> [k \in 1..n |-> t],
                  draws |-> [k \in 1..n |->
                                IF k = 4 THEN dr ELSE IF k = 5 THEN dm ELSE dh]]
    /\ ret = Returned("__init__", PyNone, <<>>)
    /\ process = <<>>

\* DataSimulator(num_machines)
DoConstruct ==
    /\ ret.op = "__init__"
    /\ machines' = DataSimulator(call.num_machines, call.types, call.draws)
    /\ ret' = Returned("DataSimulator", PyNum(call.num_machines), <<>>)
    /\ UNCHANGED <<call, process>>

SpecFleet == InitFleet /\ [][DoConstruct]_vars

---------------------------------------------------------------------------
(* C1: every reading generate_sensor_data returns keeps each sensor inside its
   configured range (air temperature [295,304], process temperature
   [305,313], rotational speed [1200,2500], torque [15,70], tool wear
   [0,250]), for every initial condition, after any sequence of
   generate_sensor_data and reset_tool_wear calls, after the baseline drift
   and after the rounding of the emitted values. *)
InRange(x, range) == range[1] <= x /\ x <= range[2]

C1_ReadingsInRange ==
    ret.op = "generate_sensor_data" =>
        /\ InRange(ret.value["Air temperature [K]"], AirRange)
        /\ InRange(ret.value["Process temperature [K]"], ProcessRange)
        /\ InRange(ret.value["Rotational speed [rpm]"], SpeedRange)
        /\ InRange(ret.value["Torque [Nm]"], TorqueRange)
        /\ InRange(ret.value["Tool wear [min]"], WearRange)

\* a reading produced after the drift from a baseline that the drift has moved
\* above the value __init__ can give it, clamped at the top of its range
C1_Witness ==
    /\ ret.op = "generate_sensor_data"
    /\ machines[1].cycles > DriftPeriod
    /\ machines[1].torque_baseline > 70000
    /\ ret.value["Torque [Nm]"] = TorqueRange[2]
    /\ ret.value["Air temperature [K]"] = AirRange[2]

---------------------------------------------------------------------------
(* C2 as stated: tool wear never decreases across a generate_sensor_data call
   and every reset_tool_wear call leaves the wear strictly lower than it was
   just before the call, whatever the wear was. *)
C2_WearMonotoneResetLowers ==
    [][/\ ret'.op = "generate_sensor_data" =>
              machines'[1].tool_wear >= machines[1].tool_wear
       /\ ret'.op = "reset_tool_wear" =>
              machines'[1].tool_wear < machines[1].tool_wear]_vars

(* C2 amended: tool wear never decreases across a generate_sensor_data call;
   every reset_tool_wear call leaves the wear in [0,20), so it is strictly
   lower than before whenever the wear before the call was at least 20. *)
C2_WearMonotoneResetFresh ==
    [][/\ ret'.op = "generate_sensor_data" =>
              machines'[1].tool_wear >= machines[1].tool_wear
       /\ ret'.op = "reset_tool_wear" =>
              /\ 0 <= machines'[1].tool_wear
              /\ machines'[1].tool_wear < 20000
              /\ machines[1].tool_wear >= 20000 =>
                     machines'[1].tool_wear < machines[1].tool_wear]_vars

\* a reset has acted on a machine that had generated readings, and left the
\* largest wear a reset can leave
C2_Witness ==
    /\ ret.op = "reset_tool_wear"
    /\ machines[1].cycles = MaxCycles
    /\ machines[1].tool_wear > 19000

---------------------------------------------------------------------------
(* C5: perform_maintenance(id) on an id of the fleet returns true, leaves the
   wear of that machine below 20 and leaves every other machine as it was. *)
C5_MaintenanceOnKnownId ==
    [][(ret'.op = "perform_maintenance" /\ Lookup(machines, ret'.arg) # 0) =>
          LET k == Lookup(machines, ret'.arg)
          IN  /\ ret'.raised = ""
              /\ ret'.value = TRUE
              /\ machines'[k].tool_wear < 20000
              /\ Len(machines') = Len(machines)
              /\ \A j \in 1..Len(machines) : j # k => machines'[j] = machines[j]]_vars

\* maintenance has succeeded on the second machine of a fleet, which had run
\* to a wear above 20, while the first machine keeps its own cycles and wear
C5_Witness ==
    /\ ret.op = "perform_maintenance"
    /\ ret.value = TRUE
    /\ Len(machines) >= 2
    /\ ret.arg = PyStr(MachineId(1))
    /\ machines[2].cycles = MaxCycles
    /\ machines[2].tool_wear < 20000
    /\ machines[1].cycles = 1
    /\ machines[1].tool_wear > 20000

(* C6: perform_maintenance(id) on an id that is not in the fleet returns false
   without raising and leaves every machine (wear, degradation rate,
   baselines, cycle counter) unchanged. *)
C6_MaintenanceOnUnknownId ==
    [][(ret'.op = "perform_maintenance" /\ Lookup(machines, ret'.arg) = 0) =>
          /\ ret'.raised = ""
          /\ ret'.value = FALSE
          /\ machines' = machines]_vars

\* maintenance on an unknown id has returned false on a fleet that has run
C6_Witness ==
    /\ ret.op = "perform_maintenance"
    /\ ret.raised = ""
    /\ ret.value = FALSE
    /\ ret.arg = PyStr(<<"M", "9", "9", "9">>)
    /\ \A k \in 1..Len(machines) : machines[k].cycles > 0

(* C7: generate_data(id) fails with ValueError for every string id that is
   absent from the fleet, the empty string included, and steps no machine. *)
C7_GenerateUnknownIdRaises ==
    [][(ret'.op = "generate_data" /\ ret'.arg.tag = "str"
            /\ Lookup(machines, ret'.arg) = 0) =>
          /\ ret'.raised = "ValueError"
          /\ machines' = machines]_vars

(* C8: generate_data(None) returns exactly one reading per machine, in
   creation order (M001, M002, ...), and steps the cycle counter of each
   machine by one; generate_data(id) for an id of the fleet returns the
   reading of that machine and steps that machine only. *)
C8_GenerateReturnsPerMachine ==
    [][ret'.op = "generate_data" =>
          /\ ret'.arg = PyNone =>
                /\ ret'.raised = ""
                /\ Len(ret'.value) = Len(machines)
                /\ \A k \in 1..Len(machines) :
                      /\ ret'.value[k]["machine_id"] = MachineId(k - 1)
                      /\ ret'.value[k]["machine_id"] = machines[k].machine_id
                      /\ machines'[k].cycles = machines[k].cycles + 1
                      /\ ret'.value[k]["cycles"] = machines'[k].cycles
          /\ Lookup(machines, ret'.arg) # 0 =>
                LET k == Lookup(machines, ret'.arg)
                IN  /\ ret'.raised = ""
                    /\ ret'.value["machine_id"] = ret'.arg.v
                    /\ ret'.value["cycles"] = machines[k].cycles + 1
                    /\ machines'[k].cycles = machines[k].cycles + 1
                    /\ \A j \in 1..Len(machines) : j # k => machines'[j] = machines[j]]_vars

\* a fleet-wide generate has returned two readings in creation order after a
\* generate on the first machine alone
C8_Witness ==
    /\ ret.op = "generate_data"
    /\ ret.arg = PyNone
    /\ Len(ret.value) = 2
    /\ ret.value[1]["machine_id"] = <<"M", "0", "0", "1">>
    /\ ret.value[2]["machine_id"] = <<"M", "0", "0", "2">>
    /\ ret.value[1]["cycles"] = 2
    /\ ret.value[2]["cycles"] = 1

---------------------------------------------------------------------------
(* C3: _get_health_status maps every probability of [0,1] to exactly one
   band: [0,0.3) to HEALTHY, [0.3,0.6) to RISK and [0.6,1.0] to MAINTENANCE
   REQUIRED, so 0.3 and 0.6 belong to the higher band and 1.0, which no
   configured interval holds, gets MAINTENANCE REQUIRED from the fallback. *)
C3_BandOfProbability ==
    ret.op = "predict" =>
        LET q    == call.outcomes[1].p
            band == ret.value.v.health_status
        IN  /\ ret.raised = ""
            /\ (0 <= q /\ q < (3 * ProbScale) \div 10) => band = "HEALTHY"
            /\ ((3 * ProbScale) \div 10 <= q /\ q < (6 * ProbScale) \div 10) => band = "RISK"
            /\ ((6 * ProbScale) \div 10 <= q /\ q <= ProbScale) => band = "MAINTENANCE REQUIRED"

\* the probability 1.0 has been classified, by the fallback
C3_Witness ==
    /\ ret.op = "predict"
    /\ call.outcomes[1].p = ProbScale
    /\ \A k \in 1..Len(HEALTH_STATUS) : ~InBand(HEALTH_STATUS[k], call.outcomes[1].p)
    /\ ret.value.v.health_status = "MAINTENANCE REQUIRED"

(* C4: in every result of predict, alert is true exactly when the failure
   probability is at least FAILURE_THRESHOLD (0.6), and so, with the
   configured bands, exactly when the band is MAINTENANCE REQUIRED. *)
C4_AlertIffThreshold ==
    ret.op = "predict" =>
        LET q == call.outcomes[1].p
        IN  /\ ret.value.v.alert <=> (q >= (6 * ProbScale) \div 10)
            /\ ret.value.v.alert <=> (ret.value.v.health_status = "MAINTENANCE REQUIRED")

\* the probability 0.6 itself has raised the alert
C4_Witness ==
    /\ ret.op = "predict"
    /\ call.outcomes[1].p = (6 * ProbScale) \div 10
    /\ ret.value.v.alert
    /\ ret.value.v.health_status = "MAINTENANCE REQUIRED"

(* C9: predict on a list of n >= 1 readings returns a sequence that holds one
   result per reading, in the order of the readings and with their machine
   ids, a list of exactly one reading included. *)
C9_PredictListReturnsList ==
    (ret.op = "predict" /\ ret.raised = "" /\ call.sensor_data.tag = "list") =>
        /\ ret.value.tag = "list"
        /\ Len(ret.value.v) = Len(call.sensor_data.v)
        /\ \A k \in 1..Len(call.sensor_data.v) :
              ret.value.v[k].machine_id = call.sensor_data.v[k]["machine_id"]

(* C10: for every reading that gives each sensor under exactly one of its two
   names, with any valid value, 0 included, preprocess_input puts that value
   in the sensor's slot of the feature vector. *)
Supplied(data, x) ==
    IF Bracketed(x) \in DOMAIN data THEN data[Bracketed(x)] ELSE data[Normalized(x)]

Slot(feature_columns, name) ==
    CHOOSE k \in 1..Len(feature_columns) : feature_columns[k] = name

OneNameEach(data) ==
    \A x \in Sensors : (Bracketed(x) \in DOMAIN data) # (Normalized(x) \in DOMAIN data)

C10_EitherNameSameSlot ==
    (ret.op = "preprocess_input" /\ OneNameEach(call.sensor_data)
        /\ "Type" \in DOMAIN call.sensor_data) =>
        /\ ret.raised = ""
        /\ \A x \in Sensors :
              ret.value[Slot(call.feature_columns, Normalized(x))]
                  = PyNum(Supplied(call.sensor_data, x))

---------------------------------------------------------------------------
(* C11: preprocess_input on a reading that lacks a required field, under both
   of its accepted names, fails: it raises and returns no feature vector. *)
C11_MissingFieldFails ==
    (ret.op = "preprocess_input"
        /\ \E x \in MissingFields : LacksField(call.sensor_data, x)) =>
            ret.raised # ""

---------------------------------------------------------------------------
(* C12: for every ordering of the eight feature names in feature_columns,
   position i of the vector preprocess_input returns holds the value of the
   feature named feature_columns[i]: the raw sensor values of the reading, the
   encoded Type, Temp_diff = process - air temperature and Power = torque *
   speed / 1000; the same call always gives the same vector. *)
FeatureOf(data, name) ==
    CASE name = "Type_encoded" -> PyNum(Encode(data["Type"]))
      [] name = "Temp_diff" ->
            PyNum(Supplied(data, "process") - Supplied(data, "air"))
      [] name = "Power" ->
            PyNum((Supplied(data, "torque") * (Supplied(data, "speed") \div Scale)) \div 1000)
      [] OTHER -> PyNum(Supplied(data, CHOOSE x \in Sensors : Normalized(x) = name))

---------------------------------------------------------------------------
(* C13: a predict call on an instance whose model is not loaded raises
   RuntimeError without invoking the classifier and without starting a load;
   once the singleton exists and no first call is still in flight, no call
   starts another load, so after a failed load no instance is ever loaded. *)
C13_Steps ==
    [][/\ (ret'.op = "predict" /\ ret' # ret
            /\ ~process.instances[process.holds[ret'.arg.thread]].model_loaded) =>
               /\ ret'.raised = "RuntimeError"
               /\ process'.classified = process.classified
               /\ process'.loads = process.loads
               /\ process'.instances = process.instances
       /\ (process.model_inference # 0
            /\ \A t \in Threads : process.pc[t] \notin {"new", "load", "loading"}) =>
               /\ process'.loads = process.loads
               /\ process'.model_inference = process.model_inference]_vars

C13_PredictUnloadedFails ==
    /\ C13_Steps
    /\ [](~process.artifact =>
            /\ \A k \in 1..Len(process.instances) : ~process.instances[k].model_loaded
            /\ process.classified = 0
            /\ ret.op = "predict" => ret.raised = "RuntimeError")

\* the one load has failed, every thread holds the singleton and a prediction
\* has failed
C13_Witness ==
    /\ ~process.artifact
    /\ process.loads = 1
    /\ ret.op = "predict"
    /\ ret.raised = "RuntimeError"
    /\ \A t \in Threads : process.pc[t] = "have"

(* C14: under every interleaving of concurrent first calls of
   get_model_inference, load_model is started at most once and at most one
   ModelInference instance is ever constructed. *)
C14_LoadsOnce ==
    /\ process.loads <= 1
    /\ Len(process.instances) <= 1

---------------------------------------------------------------------------
(* C15: under every interleaving of one generate_sensor_data call and one
   reset_tool_wear call on a machine, the machine and the reading at the end
   are those of one of the two serial orders of the calls. *)
GenerateThenReset ==
    LET out == GenerateSensorData(process.before, process.g)
    IN  [machine |-> ResetToolWear(out.machine, process.d), reading |-> out.reading]

ResetThenGenerate ==
    GenerateSensorData(ResetToolWear(process.before, process.d), process.g)

C15_Serialized ==
    (process.gen = "done" /\ process.reset = "done") =>
        [machine |-> machines[1], reading |-> process.reading]
            \in {GenerateThenReset, ResetThenGenerate}

---------------------------------------------------------------------------
(* C16: on a freshly initialized fleet of five machines, after one
   generate_data() call exactly one machine has a wear in [180,220], and its
   torque reading is the highest of the five. *)
InBandOfMaintenance(m) == 180000 <= m.tool_wear /\ m.tool_wear <= 220000

C16_OneInBandWithTopTorque ==
    ret.op = "generate_data" =>
        \E k \in 1..Len(machines) :
            /\ InBandOfMaintenance(machines[k])
            /\ \A j \in 1..Len(machines) : InBandOfMaintenance(machines[j]) => j = k
            /\ \A j \in 1..Len(machines) :
                  ret.value[j]["Torque [Nm]"] <= ret.value[k]["Torque [Nm]"]

(* C16 amended: after the first generate_data() of the fleet of five, the
   maintenance machine (the fifth) has a wear in [180, 220.105], the risk
   machine (the fourth) a wear in [165, 185.105] and every healthy machine a
   wear below 45.1, so only the fourth and the fifth machine can have a wear
   in [180,220]; both have a torque baseline of at least 62, above the
   baseline of every healthy machine, which is at most 38. *)
C16_DegradedPair ==
    ret.op = "generate_data" =>
        /\ Len(machines) = 5
        /\ 180000 <= machines[5].tool_wear /\ machines[5].tool_wear <= 220105
        /\ 165000 <= machines[4].tool_wear /\ machines[4].tool_wear <= 185105
        /\ \A k \in 1..3 : 5000 <= machines[k].tool_wear /\ machines[k].tool_wear < 45100
        /\ \A k \in 1..5 : InBandOfMaintenance(machines[k]) => k \in {4, 5}
        /\ \A k \in 1..3, j \in {4, 5} :
              /\ machines[k].torque_baseline <= 38000
              /\ machines[j].torque_baseline >= 62000

\* both degraded machines have a wear in [180,220] and the risk machine reads
\* the higher torque
C16_Witness ==
    /\ ret.op = "generate_data"
    /\ InBandOfMaintenance(machines[4])
    /\ InBandOfMaintenance(machines[5])
    /\ ret.value[4]["Torque [Nm]"] > ret.value[5]["Torque [Nm]"]

---------------------------------------------------------------------------
(* C17: in the result of one get_real_time_predictions call, the results of
   all machines carry the same generation timestamp. *)
C17_SharedTimestamp ==
    (ret.op = "get_real_time_predictions" /\ ret.raised = "" /\ ret.value.tag = "list") =>
        \A j \in 1..Len(ret.value.v) : \A k \in 1..Len(ret.value.v) :
            ret.value.v[j].sensor_data["timestamp"] = ret.value.v[k].sensor_data["timestamp"]

(* C19: a prediction request that fails raises to its caller and leaves the
   model singleton as it was and the fleet whole, every machine either
   untouched or advanced by exactly one completed generate_sensor_data call;
   requests made after the failure are served. *)
PredictionOps == {"get_real_time_predictions", "get_machine_prediction"}

C19_FailureIsLocal ==
    [][(ret'.op \in PredictionOps /\ ret'.raised # "") =>
          /\ process'.failed # {}
          /\ process'.model_loaded = process.model_loaded
          /\ Len(machines') = Len(machines)
          /\ \A k \in 1..Len(machines) :
                \/ machines'[k] = machines[k]
                \/ \E g \in FleetGenDraws(machines[k]) :
                      machines'[k] = GenerateSensorData(machines[k], g).machine]_vars

\* a fleet-wide request has been served after a request failed in the
\* classifier
C19_Witness ==
    /\ "predict" \in process.failed
    /\ process.model_loaded
    /\ Len(machines) >= 2
    /\ ret.op = "get_real_time_predictions"
    /\ ret.raised = ""
    /\ ret.value.tag = "list"
    /\ Len(ret.value.v) = Len(machines)
    /\ \E k \in 1..Len(machines) : machines[k].tool_wear < 1000

---------------------------------------------------------------------------
(* C18: for every fleet size n >= 1, DataSimulator creates n machines with
   distinct ids, a majority of them healthy, exactly one of them the risk
   machine and exactly one the maintenance machine. *)
\* the machine was constructed from the ranges of the condition
StartedAs(m, condition) ==
    LET R == InitRanges(condition)
    IN  /\ R.wear[1] <= m.tool_wear /\ m.tool_wear <= R.wear[2]
        /\ R.torque[1] <= m.torque_baseline /\ m.torque_baseline <= R.torque[2]
        /\ R.speed[1] <= m.speed_baseline /\ m.speed_baseline <= R.speed[2]

\* the positions of the fleet whose machine started in the condition
Started(condition) == {k \in 1..Len(machines) : StartedAs(machines[k], condition)}

DistinctIds ==
    \A j \in 1..Len(machines) : \A k \in 1..Len(machines) :
        machines[j].machine_id = machines[k].machine_id => j = k

C18_FullSpectrum ==
    ret.op = "DataSimulator" =>
        /\ Len(machines) = call.num_machines
        /\ DistinctIds
        /\ 2 * Cardinality(Started("healthy")) > Len(machines)
        /\ Cardinality(Started("risk")) = 1
        /\ Cardinality(Started("maintenance")) = 1

(* C18 amended: for every fleet size n >= 1, DataSimulator creates n machines
   with the distinct ids M001, M002, ...; the fourth machine, when there is
   one, is the only risk machine and the fifth, when there is one, the only
   maintenance machine; every other machine is healthy, so the healthy
   machines are a majority for every n, and the fleet holds a risk machine
   only from n = 4 and a maintenance machine only from n = 5. *)
C18_SpectrumFromFive ==
    ret.op = "DataSimulator" =>
        /\ Len(machines) = call.num_machines
        /\ DistinctIds
        /\ \A k \in 1..Len(machines) :
              /\ Len(machines[k].machine_id) = 4
              /\ machines[k].machine_id[1] = "M"
              /\ machines[k].machine_id[4] = Str(k % 10)[1]
        /\ \A k \in 1..Len(machines) :
              StartedAs(machines[k], IF k = 4 THEN "risk"
                                     ELSE IF k = 5 THEN "maintenance" ELSE "healthy")
        /\ Started("healthy") = (1..Len(machines)) \ {4, 5}
        /\ Started("risk") \cup Started("maintenance") = (1..Len(machines)) \cap {4, 5}
        /\ 2 * Cardinality(Started("healthy")) > Len(machines)

\* a fleet of four has been constructed: it holds the risk machine and no
\* maintenance machine
C18_Witness ==
    /\ ret.op = "DataSimulator"
    /\ Len(machines) = 4
    /\ Started("healthy") = {1, 2, 3}
    /\ StartedAs(machines[4], "risk")
    /\ ~StartedAs(machines[4], "maintenance")

---------------------------------------------------------------------------
(* C20: reset_tool_wear is the only operation that decreases the wear of a
   machine, and it changes the wear, to a value in [0,20], and the
   degradation rate, to a value in [0.2,0.5], and nothing else: baselines,
   cycle counter, type, id and operating mode stay as they were. *)
C20_ResetFrame ==
    [][/\ machines'[1].tool_wear < machines[1].tool_wear => ret'.op = "reset_tool_wear"
       /\ ret'.op = "reset_tool_wear" =>
              /\ 0 <= machines'[1].tool_wear /\ machines'[1].tool_wear <= 20000
              /\ 200 <= machines'[1].degradation_rate
              /\ machines'[1].degradation_rate <= 500
              /\ [machines'[1] EXCEPT !.tool_wear = machines[1].tool_wear,
                                      !.degradation_rate = machines[1].degradation_rate]
                     = machines[1]]_vars

\* a machine that started in the maintenance condition and has run has been
\* reset: its wear is fresh, its torque baseline still the degraded one
C20_Witness ==
    /\ ret.op = "reset_tool_wear"
    /\ machines[1].cycles >= 1
    /\ machines[1].tool_wear < 20000
    /\ machines[1].degradation_rate >= 200
    /\ machines[1].torque_baseline >= 62000
    /\ machines[1].speed_baseline <= 1320000

---------------------------------------------------------------------------
(* C21: the baselines of a machine change only inside a generate_sensor_data
   call that brings its cycle counter to a multiple of 100; in that call the
   air-temperature, speed and torque baselines move by at most 0.1, 5 and
   0.5, the process-temperature baseline never changes, and the reading of
   that cycle is computed from the baselines as they were before the
   drift. *)
Baselines(m) ==
    <<m.air_temp_baseline, m.process_temp_baseline, m.speed_baseline, m.torque_baseline>>

Within(x, y, delta) == x - y <= delta /\ y - x <= delta

\* the machine after the step with the baselines it had before the step
WithBaselinesBefore ==
    [machines'[1] EXCEPT !.air_temp_baseline     = machines[1].air_temp_baseline,
                         !.process_temp_baseline = machines[1].process_temp_baseline,
                         !.speed_baseline        = machines[1].speed_baseline,
                         !.torque_baseline       = machines[1].torque_baseline]

\* the draws of a long-horizon call at the sites that enter the reading: the
\* drift deltas are drawn after the sensors are sampled
SensorDraws(m) == GenDrawsOver(m, {RandMax}, {RandMax}, ZSamples, {0})

C21_DriftOnlyEveryHundredth ==
    [][/\ Baselines(machines'[1]) # Baselines(machines[1]) =>
              /\ ret'.op = "generate_sensor_data"
              /\ machines'[1].cycles = machines[1].cycles + 1
              /\ machines'[1].cycles % 100 = 0
       /\ Within(machines'[1].air_temp_baseline, machines[1].air_temp_baseline, 100)
       /\ Within(machines'[1].speed_baseline, machines[1].speed_baseline, 5000)
       /\ Within(machines'[1].torque_baseline, machines[1].torque_baseline, 500)
       /\ machines'[1].process_temp_baseline = machines[1].process_temp_baseline
       /\ (ret'.op = "generate_sensor_data"
              /\ machines'[1].cycles = machines[1].cycles + 1
              /\ machines'[1].cycles % 100 = 0) =>
              \E g \in SensorDraws(machines[1]) :
                  ret'.value = Reading(WithBaselinesBefore, g)]_vars

\* the hundredth call of a healthy machine has returned: the air-temperature
\* and speed baselines are below anything __init__ draws, and the reading
\* still shows the values of the baselines before the drift
C21_Witness ==
    /\ ret.op = "generate_sensor_data"
    /\ machines[1].cycles = 100
    /\ ret.value["cycles"] = 100
    /\ machines[1].air_temp_baseline = 295900
    /\ ret.value["Air temperature [K]"] = 296000
    /\ machines[1].speed_baseline = 1595000
    /\ ret.value["Rotational speed [rpm]"] = 1600000

---------------------------------------------------------------------------
(* SpecInfo: a DataSimulator fleet with its three operations, generate_data,
   perform_maintenance and get_machines_info.  Neighbouring machines have
   drawn different types and every machine the largest sample of its start
   ranges.  process records what the callers have seen: created is the
   id and the type of each machine as __init__ made them, produced the
   number of readings each machine has returned so far. *)

\* round(x, 2): nearest multiple of 0.01, ties to even
Round2(x) ==
    LET q == x \div 10
        r == x % 10
    IN  IF r < 5 THEN q * 10
        ELSE IF r > 5 THEN (q + 1) * 10
        ELSE IF q % 2 = 0 THEN q * 10 ELSE (q + 1) * 10

\* the summary get_machines_info makes of one machine
MachineInfo(m) ==
    ("machine_id" :> m.machine_id) @@
    ("type" :> m.machine_type) @@
    ("tool_wear" :> IntTrunc(m.tool_wear)) @@
    ("operating_mode" :> m.operating_mode) @@
    ("cycles" :> m.cycles) @@
    ("degradation_rate" :> Round2(m.degradation_rate))

\* a get_machines_info that lists the most worn machine first
GetMachinesInfoByWear(ms) ==
    LET n == Len(ms)
        rank(k) == Cardinality({j \in 1..n :
                       \/ ms[j].tool_wear > ms[k].tool_wear
                       \/ ms[j].tool_wear = ms[k].tool_wear /\ j < k}) + 1
    IN  [machines |-> ms,
         ret |-> Returned("get_machines_info", PyNone,
                          [p \in 1..n |-> MachineInfo(ms[CHOOSE k \in 1..n : rank(k) = p])])]

\* DataSimulator.get_machines_info (MonitoringService.get_machines_status
\* passes the call through)
GetMachinesInfo(ms) ==
    [machines |-> ms,
     ret |-> Returned("get_machines_info", PyNone,
                      [k \in 1..Len(ms) |-> MachineInfo(ms[k])])]

\* the types n machines have drawn, alternating between two
InfoTypes(n) ==
    {[k \in 1..n |-> IF k % 2 = 1 THEN a ELSE b] : a, b \in {"L", "H"}} \
        {t \in [1..n -> {"L", "H"}] : \E k \in 1..(n - 1) : t[k] = t[k + 1]}

\* the readings a call has returned: none unless it is a generate_data that
\* did not raise, one for a truthy machine_id, the list otherwise
ReadingsReturned(r) ==
    IF r.op # "generate_data" \/ r.raised # "" THEN <<>>
    ELSE IF Truthy(r.arg) THEN <<r.value>> ELSE r.value

InitInfo ==
    /\ \E n \in FleetSizes :
          \E types \in InfoTypes(n) :
              /\ machines = DataSimulator(n, types,
                                          [k \in 1..n |->
                                              CHOOSE d \in FleetInitDraws : d.wear = RandMax])
              /\ process = [created  |-> [k \in 1..n |->
                                             [machine_id |-> MachineId(k - 1),
                                              type |-> types[k]]],
                            produced |-> [k \in 1..n |-> 0]]
    /\ call = PyNone
    /\ ret = Returned("__init__", PyNone, <<>>)

InfoGenerateData ==
    \E machine_id \in MachineIdArgs(machines) :
        /\ \A k \in Stepped(machines, machine_id) : machines[k].cycles < MaxCycles
        /\ \E g \in [1..Len(machines) -> UNION {FleetGenDraws(machines[k]) : k \in 1..Len(machines)}] :
              /\ \A k \in 1..Len(machines) : g[k] \in FleetGenDraws(machines[k])
              /\ LET out == GenerateData(machines, machine_id, g)
                     rs  == ReadingsReturned(out.ret)
                 IN  /\ machines' = out.machines
                     /\ ret' = out.ret
                     /\ process' = [process EXCEPT !.produced =
                            [k \in DOMAIN @ |->
                                @[k] + Cardinality({j \in 1..Len(rs) :
                                          rs[j]["machine_id"] = process.created[k].machine_id})]]
        /\ UNCHANGED call

InfoPerformMaintenance ==
    \E machine_id \in MachineIdArgs(machines), d \in FleetResetDraws :
        LET out == PerformMaintenance(machines, machine_id, d)
        IN  /\ machines' = out.machines
            /\ ret' = out.ret
            /\ UNCHANGED <<call, process>>

InfoGetMachinesInfo ==
    LET out == GetMachinesInfo(machines)
    IN  /\ machines' = out.machines
        /\ ret' = out.ret
        /\ UNCHANGED <<call, process>>

NextInfo == InfoGenerateData \/ InfoPerformMaintenance \/ InfoGetMachinesInfo

SpecInfo == InitInfo /\ [][NextInfo]_vars

---------------------------------------------------------------------------
(* C22: the cycle counter of a machine starts at 0, increases by exactly 1 on
   each generate_sensor_data call for that machine and is left unchanged by
   every other operation (maintenance, status query, generate on another
   machine); the 'cycles' field of each reading equals the number of readings
   that machine has produced so far. *)
C22_CyclesCountReadings ==
    /\ ret.op = "__init__" => \A k \in 1..Len(machines) : machines[k].cycles = 0
    /\ \A k \in 1..Len(machines) : machines[k].cycles = process.produced[k]
    /\ \A j \in 1..Len(ReadingsReturned(ret)) :
          \A k \in 1..Len(machines) :
              ReadingsReturned(ret)[j]["machine_id"] = process.created[k].machine_id =>
                  ReadingsReturned(ret)[j]["cycles"] = process.produced[k]

\* the second machine has been maintained and asked for its status after the
\* first one alone produced two readings
C22_Witness ==
    /\ Len(machines) = 2
    /\ ret.op = "get_machines_info"
    /\ process.produced = <<2, 0>>
    /\ machines[1].cycles = 2
    /\ machines[2].cycles = 0
    /\ machines[2].degradation_rate = 499
    /\ ret.value[1]["cycles"] = 2

---------------------------------------------------------------------------
(* C25: the membership of the fleet is fixed: after any sequence of
   generate_data, perform_maintenance and get_machines_info calls the machine
   ids, their order and their types are those of the initialization, and
   get_machines_info changes no machine state and returns one summary per
   machine in creation order. *)
SameMembers(created, ms) ==
    /\ Len(ms) = Len(created)
    /\ \A k \in 1..Len(created) :
          /\ ms[k].machine_id = created[k].machine_id
          /\ ms[k].machine_type = created[k].type

C25_FleetFixed ==
    /\ [](/\ SameMembers(process.created, machines)
          /\ ret.op = "get_machines_info" =>
                /\ ret.raised = ""
                /\ Len(ret.value) = Len(process.created)
                /\ \A k \in 1..Len(process.created) :
                      /\ ret.value[k]["machine_id"] = process.created[k].machine_id
                      /\ ret.value[k]["type"] = process.created[k].type)
    /\ [][ret'.op = "get_machines_info" => machines' = machines]_vars

\* a status query on a fleet of two machines of different types, the second
\* of which has run more and is the more worn, the first of which has been
\* maintained
C25_Witness ==
    /\ ret.op = "get_machines_info"
    /\ Len(machines) = 2
    /\ process.created[1].type # process.created[2].type
    /\ process.produced = <<1, 2>>
    /\ machines[2].tool_wear > machines[1].tool_wear
    /\ machines[1].degradation_rate = 499
    /\ ret.value[2]["machine_id"] = <<"M", "0", "0", "2">>

---------------------------------------------------------------------------
(* C23: a get_real_time_predictions or get_machine_prediction request that
   fails (model not loaded, invalid input or classifier fault) leaves the
   wear and the cycle counter of every machine exactly as they were before
   the request. *)
C23_FailedRequestAdvancesNothing ==
    [][(ret'.op \in PredictionOps /\ ret'.raised # "") =>
          \A k \in 1..Len(machines) :
              /\ machines'[k].tool_wear = machines[k].tool_wear
              /\ machines'[k].cycles = machines[k].cycles]_vars

---------------------------------------------------------------------------
(* C24: in every result of predict, the alert flag and the health band agree
   with the reported failure_probability, which is rounded to 4 decimals:
   alert is true exactly when the reported value is at least 0.6, and the
   band is the one whose interval holds the reported value, for every raw
   probability in [0,1]. *)
C24_FlagsAgreeWithReported ==
    (ret.op = "predict" /\ ret.raised = "") =>
        LET reported == ret.value.v.failure_probability
            band     == ret.value.v.health_status
        IN  /\ ret.value.v.alert <=> (reported >= (6 * ProbScale) \div 10)
            /\ reported < (3 * ProbScale) \div 10 => band = "HEALTHY"
            /\ ((3 * ProbScale) \div 10 <= reported /\ reported < (6 * ProbScale) \div 10)
                  => band = "RISK"
            /\ reported >= (6 * ProbScale) \div 10 => band = "MAINTENANCE REQUIRED"

====
